---- MODULE Spec2Model ----
(***************************************************************************)
(* The counter application of src/index.js: the App component (one         *)
(* React.useState cell, three click handlers, one rendered paragraph),     *)
(* the DumbComponent, and the two ReactDOM.render calls of the module's    *)
(* top level.                                                              *)
(*                                                                         *)
(* count is a JavaScript Number, an IEEE-754 binary64.  It is kept here as *)
(* sign, 53-bit significand (two limbs of 26 and 27 bits, value            *)
(* hi * 2^27 + lo) and binary exponent e, the value being                  *)
(* (hi * 2^27 + lo) * 2^e; count + 1 and count * 5 round to nearest, ties  *)
(* to even, and overflow to Infinity, as the runtime's operators do.       *)
(***************************************************************************)
EXTENDS Integers, Sequences, FiniteSets, TLC

----------------------------------------------------------------------------
(* JavaScript Numbers                                                      *)

Base == 2^27
HiLimit == 2^26
HiNormal == 2^25
MaxExponent == 971

Zero == [neg |-> FALSE, inf |-> FALSE, hi |-> 0, lo |-> 0, e |-> 0]
One == [neg |-> FALSE, inf |-> FALSE, hi |-> 0, lo |-> 1, e |-> 0]
Infinity == [neg |-> FALSE, inf |-> TRUE, hi |-> 0, lo |-> 0, e |-> 0]

IsZero(x) == ~x.inf /\ x.hi = 0 /\ x.lo = 0

Negate(x) == IF IsZero(x) THEN x ELSE [x EXCEPT !.neg = ~x.neg]

\* A finite magnitude from a significand below 2^53 + 1 and an exponent:
\* a significand of exactly 2^53 is renormalised, an exponent past the
\* largest finite binary64 gives Infinity.
Finite(hi, lo, e) ==
    LET h == IF hi = HiLimit THEN HiNormal ELSE hi
        x == IF hi = HiLimit THEN e + 1 ELSE e
    IN  IF x > MaxExponent THEN Infinity
        ELSE [neg |-> FALSE, inf |-> FALSE, hi |-> h, lo |-> lo, e |-> x]

\* significand + 1
IncMantissa(x) ==
    IF x.lo + 1 = Base THEN Finite(x.hi + 1, 0, x.e)
    ELSE Finite(x.hi, x.lo + 1, x.e)

\* magnitude + 1, rounded to nearest, ties to even
Add1Mag(x) ==
    IF x.inf THEN x
    ELSE IF x.e = 0 THEN IncMantissa(x)
    ELSE IF x.e = 1 /\ x.lo % 2 = 1 THEN IncMantissa(x)
    ELSE x

\* magnitude - 1 of a magnitude of 1 or more, rounded to nearest, ties to even
Sub1Mag(x) ==
    IF x.inf THEN x
    ELSE IF x.e = 0
    THEN IF x.lo = 0 THEN Finite(x.hi - 1, Base - 1, 0)
         ELSE Finite(x.hi, x.lo - 1, 0)
    ELSE IF x.e = 1
    THEN IF x.hi = HiNormal /\ x.lo = 0 THEN Finite(HiLimit - 1, Base - 1, 0)
         ELSE IF x.lo % 2 = 1 THEN Finite(x.hi, x.lo - 1, 1)
         ELSE x
    ELSE x

\* magnitude * 5, rounded to nearest, ties to even
Mul5Mag(x) ==
    IF x.inf THEN x
    ELSE
    LET plo == 5 * x.lo
        lo1 == plo % Base
        hi1 == 5 * x.hi + (plo \div Base)
        s   == IF hi1 < HiLimit THEN 0
               ELSE IF hi1 < 2 * HiLimit THEN 1
               ELSE IF hi1 < 4 * HiLimit THEN 2 ELSE 3
        p   == 2^s
        qhi == hi1 \div p
        qlo == ((hi1 % p) * Base + lo1) \div p
        r   == lo1 % p
        up  == s > 0 /\ (2 * r > p \/ (2 * r = p /\ qlo % 2 = 1))
        q   == Finite(qhi, qlo, x.e + s)
    IN  IF up /\ ~q.inf THEN IncMantissa(q) ELSE q

\* count + 1
Add1(x) ==
    IF ~x.neg THEN Add1Mag(x)
    ELSE IF x.inf THEN x
    ELSE Negate(Sub1Mag(Negate(x)))

\* count * 5
Mul5(x) ==
    IF x.neg THEN Negate(Mul5Mag(Negate(x))) ELSE Mul5Mag(x)

\* count - 1 (no handler of the source computes it)
Sub1(x) == Negate(Add1(Negate(x)))

\* Number.isInteger: every finite binary64 with a non-negative exponent
IsInteger(x) == ~x.inf /\ x.e >= 0

----------------------------------------------------------------------------
(* Number to text, as the text node of <span>{count}</span> shows it       *)

DigitChars == <<"0", "1", "2", "3", "4", "5", "6", "7", "8", "9">>

\* decimal digits, most significant first, of hi * 2^27 + lo (hi < 2^27)
RECURSIVE DigitsOf(_, _)
DigitsOf(hi, lo) ==
    IF hi = 0 /\ lo < 10 THEN <<lo>>
    ELSE LET t == (hi % 10) * Base + lo
         IN  Append(DigitsOf(hi \div 10, t \div 10), t % 10)

DigitText(ds) == [i \in 1..Len(ds) |-> DigitChars[ds[i] + 1]]

\* String(x).  Below 2^54 the text is the decimal expansion of the integer.
\* From 2^54 on the runtime prints the shortest decimal that reads back as
\* x; that text is kept as a token naming x, one token per value.
NumberToString(x) ==
    LET sign == IF x.neg THEN <<"-">> ELSE <<>>
        body == IF x.inf THEN <<"Infinity">>
                ELSE IF x.e = 0 THEN DigitText(DigitsOf(x.hi, x.lo))
                ELSE IF x.e = 1
                THEN DigitText(DigitsOf(2 * x.hi + ((2 * x.lo) \div Base),
                                        (2 * x.lo) % Base))
                ELSE <<"binary64", ToString(x.hi), ToString(x.lo),
                       ToString(x.e)>>
    IN  sign \o body

----------------------------------------------------------------------------
(* Bounds of the exploration                                               *)

\* "Add 1" activations explored since the last "Reset", while "Multiply by 5"
\* is explored up to a significand exponent of MaxMulExp
MaxAdds == 4
MaxMulExp == 1
\* "Add 1" activations explored since the last "Reset", while "Multiply by 5"
\* is explored all the way to overflow
MaxAddsDeep == 1

Sessions == { [adds |-> MaxAdds, exp |-> MaxMulExp],
              [adds |-> MaxAddsDeep, exp |-> MaxExponent] }

----------------------------------------------------------------------------
(* The host document and the rendered output                               *)

ContainerIds == {"root", "dumbParagraph"}

NoContent ==
    [root |-> "", heading |-> "", text |-> "", span |-> <<>>, buttons |-> <<>>]

InitialCountOne == One

\* the Number useState is given on the first render
InitialCount == Zero

SpanTextFixed(c) == <<"0">>

\* the text node inside <span>{count}</span>
SpanText(c) == NumberToString(c)

\* the JSX App returns, for the count of this render
AppOutput(c) ==
    [root |-> "div.counter", heading |-> "React Counter",
     text |-> "Your click count is ", span |-> SpanText(c),
     buttons |-> <<"Add 1", "Multiply by 5", "Reset">>]

\* what DumbComponent returns
DumbComponent ==
    [root |-> "#text", heading |-> "", text |-> "hey there", span |-> <<>>,
     buttons |-> <<>>]

\* document.querySelector("#id"): the element, or null (present = FALSE)
QuerySelector(doc, id) == doc[id]

AnyContainer(node) == TRUE

\* ReactDOM.render accepts only a DOM element as its container and throws
\* TargetError for anything else, null included
IsValidContainer(node) == node.present

TargetError == "Target container is not a DOM element."
NoError == ""

----------------------------------------------------------------------------
(* The values the three handlers pass to setCount                          *)

AddTwoRequest(c) == Add1(Add1(c))

SameRequest(c) == c

SubOneRequest(c) == Sub1(c)

\* onClick={() => { setCount(count + 1); }}
AddOneRequest(c) == Add1(c)

AddFiveRequest(c) == Add1(Add1(Add1(Add1(Add1(c)))))

\* onClick={() => { setCount(count * 5); }}
MultiplyRequest(c) == Mul5(c)

ResetToOne == One

\* const handleReset = e => { setCount(0); };
ResetRequest == Zero

KeepStateReducer(state, action) == state

\* useState's reducer: an update that is a value replaces the state
BasicStateReducer(state, action) == action

\* the state cell after the queued updates, applied in the order queued
RECURSIVE ReduceQueue(_, _)
ReduceQueue(state, q) ==
    IF q = <<>> THEN state
    ELSE ReduceQueue(BasicStateReducer(state, Head(q)), Tail(q))

----------------------------------------------------------------------------
(* State                                                                   *)

VARIABLES
    pc,         \* the module's top level: "mountApp", "mountDumb", "done", "threw"
    thrown,     \* the message of the error the top level threw, or NoError
    dom,        \* the host document: container id -> [present, content]
    hookState,  \* the useState cell React keeps for the mounted App
    count,      \* the const count of the latest render, closed over by its handlers
    pending,    \* updates setCount has queued for the next render pass
    session,    \* the activations still explored (see Sessions)
    adds,       \* "Add 1" activations since the last "Reset"
    lastOp,     \* history: the control activated last, "none" before any
    prevOp,     \* history: the control activated before lastOp
    before,     \* history: cell, count and rendered output when lastOp was activated
    lastSet,    \* history: the last value passed to setCount
    fold,       \* history: the activations so far folded over 0, in order
    scenario    \* history: steps of Add 1 x3, Multiply by 5, Reset matched so far

vars == <<pc, thrown, dom, hookState, count, pending, session, adds,
          lastOp, prevOp, before, lastSet, fold, scenario>>

history == <<lastOp, prevOp, before, lastSet, fold, scenario>>

Container(present) == [present |-> present, content |-> NoContent]

AppMounted == dom["root"].present /\ dom["root"].content.root = "div.counter"

\* no handler is running and no render pass is owed: the next event may
\* be dispatched
Idle == pc \in {"done", "threw"} /\ AppMounted /\ pending = <<>>

Init ==
    /\ pc = "mountApp"
    /\ thrown = NoError
    /\ \E here \in SUBSET ContainerIds :
          dom = [id \in ContainerIds |-> Container(id \in here)]
    /\ hookState = InitialCount
    /\ count = InitialCount
    /\ pending = <<>>
    /\ session \in Sessions
    /\ adds = 0
    /\ lastOp = "none"
    /\ prevOp = "none"
    /\ before = [state |-> Zero, count |-> Zero, view |-> NoContent]
    /\ lastSet = Zero
    /\ fold = Zero
    /\ scenario = 0

----------------------------------------------------------------------------
(* The top level of the module                                             *)

\* const rootElement = document.querySelector("#root");
\* ReactDOM.render(<App />, rootElement);
MountApp ==
    /\ pc = "mountApp"
    /\ LET rootElement == QuerySelector(dom, "root")
       IN  IF IsValidContainer(rootElement)
           THEN /\ hookState' = InitialCount
                /\ count' = InitialCount
                /\ dom' = [dom EXCEPT !["root"].content = AppOutput(InitialCount)]
                /\ pc' = "mountDumb"
                /\ thrown' = thrown
           ELSE /\ pc' = "threw"
                /\ thrown' = TargetError
                /\ UNCHANGED <<hookState, count, dom>>
    /\ UNCHANGED <<pending, session, adds, history>>

\* const pElement = document.querySelector("#dumbParagraph");
\* ReactDOM.render(<DumbComponent />, pElement);
MountDumb ==
    /\ pc = "mountDumb"
    /\ LET pElement == QuerySelector(dom, "dumbParagraph")
       IN  IF IsValidContainer(pElement)
           THEN /\ dom' = [dom EXCEPT !["dumbParagraph"].content = DumbComponent]
                /\ pc' = "done"
                /\ thrown' = thrown
           ELSE /\ pc' = "threw"
                /\ thrown' = TargetError
                /\ dom' = dom
    /\ UNCHANGED <<hookState, count, pending, session, adds, history>>

----------------------------------------------------------------------------
(* Events                                                                  *)

\* setCount(v): the update is queued and a render pass is owed; when nothing
\* is queued and v is the state the cell already holds, React may drop the
\* update without rendering
SetCount(v) ==
    \/ pending' = Append(pending, v)
    \/ /\ pending = <<>>
       /\ v = hookState
       /\ pending' = pending

Activate(op, v, f) ==
    /\ lastOp' = op
    /\ prevOp' = lastOp
    /\ before' = [state |-> hookState, count |-> count,
                  view |-> dom["root"].content]
    /\ lastSet' = v
    /\ fold' = f

\* onClick={() => { setCount(count + 1); }}
ClickAdd ==
    /\ Idle
    /\ adds < session.adds
    /\ SetCount(AddOneRequest(count))
    /\ Activate("add", AddOneRequest(count), Add1(fold))
    /\ adds' = adds + 1
    /\ scenario' = IF scenario \in {0, 1, 2} THEN scenario + 1 ELSE -1
    /\ UNCHANGED <<pc, thrown, dom, hookState, count, session>>

\* onClick={() => { setCount(count * 5); }}
ClickMultiply ==
    /\ Idle
    /\ count.inf \/ count.e <= session.exp
    /\ SetCount(MultiplyRequest(count))
    /\ Activate("multiply", MultiplyRequest(count), Mul5(fold))
    /\ scenario' = IF scenario = 3 THEN 4 ELSE -1
    /\ UNCHANGED <<pc, thrown, dom, hookState, count, session, adds>>

\* const handleReset = e => { setCount(0); };
ClickReset ==
    /\ Idle
    /\ SetCount(ResetRequest)
    /\ Activate("reset", ResetRequest, Zero)
    /\ adds' = 0
    /\ scenario' = IF scenario = 4 THEN 5 ELSE -1
    /\ UNCHANGED <<pc, thrown, dom, hookState, count, session>>

\* the render pass React runs once the handler has returned: the queued
\* updates are applied to the cell, App is called again, and its output
\* replaces the content of the container
Render ==
    /\ pending # <<>>
    /\ LET state == ReduceQueue(hookState, pending)
       IN  /\ hookState' = state
           /\ count' = state
           /\ dom' = [dom EXCEPT !["root"].content = AppOutput(state)]
    /\ pending' = <<>>
    /\ UNCHANGED <<pc, thrown, session, adds, history>>

Next ==
    \/ MountApp
    \/ MountDumb
    \/ ClickAdd
    \/ ClickMultiply
    \/ ClickReset
    \/ Render

Spec == Init /\ [][Next]_vars

----------------------------------------------------------------------------
(* Decimal arithmetic on digit sequences, most significant digit first     *)

IsDigits(t) == t # <<>> /\ \A i \in 1..Len(t) : \E d \in 1..10 : DigitChars[d] = t[i]

ParseDigits(t) ==
    [i \in 1..Len(t) |-> (CHOOSE d \in 1..10 : DigitChars[d] = t[i]) - 1]

Front(ds) == SubSeq(ds, 1, Len(ds) - 1)

\* ds + 1
RECURSIVE DecSucc(_)
DecSucc(ds) ==
    IF ds = <<>> THEN <<1>>
    ELSE IF ds[Len(ds)] = 9 THEN Append(DecSucc(Front(ds)), 0)
    ELSE Append(Front(ds), ds[Len(ds)] + 1)

\* ds * 5 + carry
RECURSIVE DecTimes5(_, _)
DecTimes5(ds, carry) ==
    IF ds = <<>> THEN (IF carry = 0 THEN <<>> ELSE <<carry>>)
    ELSE LET t == 5 * ds[Len(ds)] + carry
         IN  Append(DecTimes5(Front(ds), t \div 10), t % 10)

\* a Number at most Number.MAX_SAFE_INTEGER = 2^53 - 1 in magnitude
IsSafeInteger(x) == ~x.inf /\ x.e = 0

\* a Number whose fivefold is at most 2^53 - 1 in magnitude
FiveFoldIsSafe(x) ==
    IsSafeInteger(x) /\ 5 * x.hi + ((5 * x.lo) \div Base) < HiLimit

Span == dom["root"].content.span

----------------------------------------------------------------------------
(* Claims                                                                  *)

\* C1: once App is mounted and before any control has been activated, the
\* counter state is 0 and the paragraph reads "Your click count is 0".
C1_FirstMountShowsZero ==
    (AppMounted /\ lastOp = "none") =>
        /\ hookState = Zero
        /\ count = Zero
        /\ pending = <<>>
        /\ dom["root"].content.text = "Your click count is "
        /\ Span = <<"0">>

C1_Witness == pc = "done" /\ AppMounted /\ lastOp = "none"

\* C2 as claimed: whatever value v is displayed, once the render pass after
\* an "Add 1" activation has completed the display shows v + 1.
C2_AddShowsSuccessor ==
    (Idle /\ lastOp = "add" /\ IsDigits(before.view.span)) =>
        Span = DigitText(DecSucc(ParseDigits(before.view.span)))

\* C2 amended: for every displayed value v of at most 2^53 - 1, once the
\* render pass after an "Add 1" activation has completed the display shows
\* v + 1.
C2_AddShowsSuccessorWhenSafe ==
    (Idle /\ lastOp = "add" /\ IsSafeInteger(before.count)) =>
        /\ before.view.span = NumberToString(before.count)
        /\ Span = DigitText(DecSucc(ParseDigits(before.view.span)))

C2_Witness ==
    /\ Idle /\ lastOp = "add"
    /\ IsSafeInteger(before.count) /\ before.count.hi > 0

\* C3 as claimed: whatever value v is displayed, once the render pass after
\* a "Multiply by 5" activation has completed the display shows v * 5.
C3_MultiplyShowsFivefold ==
    (Idle /\ lastOp = "multiply" /\ IsDigits(before.view.span)) =>
        Span = DigitText(DecTimes5(ParseDigits(before.view.span), 0))

\* C3 amended: for every displayed value v with v * 5 at most 2^53 - 1, once
\* the render pass after a "Multiply by 5" activation has completed the
\* display shows v * 5.
C3_MultiplyShowsFivefoldWhenSafe ==
    (Idle /\ lastOp = "multiply" /\ FiveFoldIsSafe(before.count)) =>
        /\ before.view.span = NumberToString(before.count)
        /\ Span = DigitText(DecTimes5(ParseDigits(before.view.span), 0))

C3_Witness ==
    /\ Idle /\ lastOp = "multiply"
    /\ FiveFoldIsSafe(before.count) /\ before.count.hi > 0

\* C4: whatever value is displayed, 0 included, once "Reset" has been
\* activated and rendered the state and the display are 0; a second "Reset"
\* right after the first leaves the state and the output of the first.
C4_ResetShowsZero ==
    (Idle /\ lastOp = "reset") =>
        /\ hookState = Zero
        /\ count = Zero
        /\ Span = <<"0">>
        /\ prevOp = "reset" =>
              /\ before.state = hookState
              /\ before.count = count
              /\ before.view = dom["root"].content

C4_Witness == Idle /\ lastOp = "reset" /\ prevOp = "reset"

C4_WitnessFromNonZero == Idle /\ lastOp = "reset" /\ before.count.hi > 0

\* C5: whenever no render pass is pending, the displayed value is the last
\* value passed to setCount, or 0 if setCount has never been called.
C5_NoStaleness ==
    Idle => Span = NumberToString(lastSet)

C5_Witness == Idle /\ lastOp = "multiply" /\ ~IsZero(lastSet)

Attempted(id) ==
    IF id = "root" THEN pc # "mountApp" ELSE pc \notin {"mountApp", "mountDumb"}

C8_RequestsAlwaysNew ==
    lastOp # "none" =>
        \/ lastSet # before.state
        \/ lastOp = "reset" /\ before.state = Zero

\* C8 amended: a handler passes setCount the value the counter state already
\* has only in these cases: "Reset" when the state is 0, "Multiply by 5"
\* when the state is 0 or Infinity, and "Add 1" when the state is 2^53 or
\* more (where count + 1 can round back to count).
C8_RequestsNewExceptListed ==
    (lastOp # "none" /\ lastSet = before.state) =>
        \/ lastOp = "reset" /\ before.state = Zero
        \/ lastOp = "multiply" /\ (before.state = Zero \/ before.state = Infinity)
        \/ lastOp = "add" /\ ~IsSafeInteger(before.state)

C8_Witness ==
    /\ Idle /\ lastOp = "multiply" /\ prevOp = "reset"
    /\ lastSet = before.state /\ before.state = Zero

\* C9: every activation is handled by the closure of the latest committed
\* render, and whenever no render pass is pending the state and the display
\* are the activations so far folded over 0 in order; Add 1 three times,
\* then Multiply by 5, then Reset displays 3, then 15, then 0.
C9_SequentialFold ==
    /\ lastOp # "none" => before.count = before.state
    /\ Idle =>
          /\ hookState = fold
          /\ count = fold
          /\ Span = NumberToString(fold)
          /\ scenario = 3 => Span = <<"3">>
          /\ scenario = 4 => Span = <<"1", "5">>
          /\ scenario = 5 => Span = <<"0">>

C9_Witness == Idle /\ scenario = 5

\* C10 as claimed: after any sequence of activations the counter state is a
\* non-negative integer.
C10_NonNegativeInteger ==
    ~hookState.neg /\ IsInteger(hookState)

\* C10 amended: after any sequence of activations the counter state is a
\* non-negative integer or +Infinity (reached by overflow of repeated
\* multiplication); no negative value is reachable, and from state 0 only
\* "Add 1" can leave 0.
C10_NonNegativeIntegerOrInfinity ==
    /\ ~hookState.neg
    /\ IsInteger(hookState) \/ hookState = Infinity
    /\ (Idle /\ before.state = Zero /\ lastOp \in {"multiply", "reset"}) =>
          hookState = Zero

C10_Witness == Idle /\ hookState = Infinity /\ lastOp = "multiply"

C10_WitnessZero ==
    Idle /\ before.state = Zero /\ lastOp = "multiply" /\ prevOp = "multiply"

====
